---- MODULE Spec2Model ----
(***************************************************************************)
(* Address book of src/project.py: validated fields, Record, AddressBook   *)
(* (an insertion-ordered dict persisted with pickle), the command          *)
(* functions and the interactive loop of main().                           *)
(*                                                                         *)
(* Representation.  A Python str is a sequence of one-character strings    *)
(* ("bob" is <<"b","o","b">>), so that the regular expressions, lower()    *)
(* and split() are computed character by character.  The text of an        *)
(* f-string is the concatenation of its pieces; a literal piece is kept    *)
(* as one chunk.  A Python value of any type is a record [ty, s].          *)
(* A dict is the sequence of its entries in insertion order.               *)
(***************************************************************************)
EXTENDS Integers, Sequences, FiniteSets, TLC

\* ---------------------------------------------------------------- bounds
MaxFaults == 1      \* I/O failures injected in one run

\* ------------------------------------------------------------ characters
LowerLetters == {"a", "b", "l", "o", "e", "x", "i", "t", "d", "c", "h", "n",
                 "g", "p", "s", "w", "y", "z"}
UpperLetters == {"A", "B", "D", "E", "I", "T", "X"}
Digits       == {"0", "1", "2", "5"}
Space        == " "

\* str.lower() on one character (project.py:187)
LowerChar(c) ==
    CASE c = "A" -> "a"
      [] c = "B" -> "b"
      [] c = "D" -> "d"
      [] c = "E" -> "e"
      [] c = "I" -> "i"
      [] c = "T" -> "t"
      [] c = "X" -> "x"
      [] OTHER   -> c

\* str.lower() (project.py:187)
Lower(s) == [i \in 1..Len(s) |-> LowerChar(s[i])]

RECURSIVE SplitFrom(_, _, _)
\* str.split(): the maximal runs of non-whitespace characters, in order.
\* cur is the run being read at position i.
SplitFrom(s, i, cur) ==
    IF i > Len(s)
    THEN IF cur = <<>> THEN <<>> ELSE <<cur>>
    ELSE IF s[i] = Space
         THEN IF cur = <<>>
              THEN SplitFrom(s, i + 1, <<>>)
              ELSE <<cur>> \o SplitFrom(s, i + 1, <<>>)
         ELSE SplitFrom(s, i + 1, Append(cur, s[i]))

Split(s) == SplitFrom(s, 1, <<>>)

RECURSIVE Join(_, _)
\* sep.join(list) (project.py:164, 174)
Join(sep, list) ==
    IF list = <<>> THEN <<>>
    ELSE IF Len(list) = 1 THEN list[1]
    ELSE list[1] \o sep \o Join(sep, Tail(list))

\* re.match("^[A-Za-z ]+$", name) (project.py:10)
NameMatches(name) ==
    /\ Len(name) >= 1
    /\ \A i \in 1..Len(name) : name[i] \in LowerLetters \cup UpperLetters \cup {Space}

\* re.match("^\d+$", phone) (project.py:12)
PhoneMatches(phone) ==
    /\ Len(phone) >= 1
    /\ \A i \in 1..Len(phone) : phone[i] \in Digits

\* ---------------------------------------------------------- Python values
PyNone     == [ty |-> "NoneType", s |-> <<>>]
PyStr(s)   == [ty |-> "str", s |-> s]
PyDate(s)  == [ty |-> "date", s |-> s]
PyInt(s)   == [ty |-> "int", s |-> s]

\* bool(v): None, "" and 0 are false
Truthy(v) ==
    CASE v.ty = "NoneType" -> FALSE
      [] v.ty = "str"      -> v.s /= <<>>
      [] v.ty = "int"      -> v.s /= <<"0">>
      [] OTHER             -> TRUE

\* Name.validate passes (project.py:60-62)
NameValidate(v) == Truthy(v)

\* Phone.validate passes (project.py:66-68)
PhoneValidate(v) == ~(Truthy(v) /\ v.ty /= "str")

\* Birthday.validate passes (project.py:37-39)
BirthdayValidate(v) == ~(Truthy(v) /\ v.ty /= "date")

\* validate() of the Field subclass kind; the base class always raises
Validate(kind, v) ==
    CASE kind = "Name"     -> NameValidate(v)
      [] kind = "Phone"    -> PhoneValidate(v)
      [] kind = "Birthday" -> BirthdayValidate(v)
      [] OTHER             -> FALSE

\* The exception validate() raises for kind (project.py:24, 39, 62, 68)
ValidateError(kind) ==
    IF kind \in {"Name", "Phone", "Birthday"} THEN "ValueError"
    ELSE "NotImplementedError"

\* Field.value setter (project.py:30-33, 45-48): the new value is stored,
\* then validated.
FieldSet(kind, new_value) ==
    [value  |-> new_value,
     raised |-> IF Validate(kind, new_value) THEN "none" ELSE ValidateError(kind)]

\* Field.__init__ (project.py:19-21): the object exists only if validate()
\* returns.
FieldInit(kind, value) ==
    [value  |-> value,
     raised |-> IF Validate(kind, value) THEN "none" ELSE ValidateError(kind)]

\* ------------------------------------------------------------------ dict
Keys(d) == {d[i].key : i \in 1..Len(d)}
Has(d, k) == k \in Keys(d)
IndexOf(d, k) == CHOOSE i \in 1..Len(d) : d[i].key = k
Get(d, k) == d[IndexOf(d, k)].rec

\* d[k] = r: an existing key keeps its position, a new key goes last
DictSet(d, k, r) ==
    IF Has(d, k)
    THEN [d EXCEPT ![IndexOf(d, k)] = [key |-> k, rec |-> r]]
    ELSE Append(d, [key |-> k, rec |-> r])

\* del d[k] / d.pop(k) for a key that is present
DictDel(d, k) ==
    LET j == IndexOf(d, k)
    IN  SubSeq(d, 1, j - 1) \o SubSeq(d, j + 1, Len(d))

\* ---------------------------------------------------------------- Record
\* Record.__init__ (project.py:72-75)
RecordInit(name, birthday) ==
    LET n == FieldInit("Name", PyStr(name))
        b == FieldInit("Birthday", birthday)
    IN  [raised |-> IF n.raised /= "none" THEN n.raised ELSE b.raised,
         rec    |-> [name |-> name, phones |-> <<>>, birthday |-> birthday]]

\* Record.add_phone (project.py:77-78)
add_phone(rec, phone) == [rec EXCEPT !.phones = Append(@, phone)]

RECURSIVE add_phones(_, _)
add_phones(rec, phones) ==
    IF phones = <<>> THEN rec
    ELSE add_phones(add_phone(rec, Head(phones)), Tail(phones))

\* ---------------------------------------------------------------- pickle
\* pickle.dump writes the dict entry by entry: a count, then for every
\* entry its key and the record's name, phones (count first) and birthday,
\* then the STOP opcode.  Counts are written in unary.
Unary(n) == [i \in 1..n |-> "i"]
STOP == <<".">>

DumpEntry(e) ==
    <<e.key, e.rec.name, Unary(Len(e.rec.phones))>> \o e.rec.phones
        \o << <<e.rec.birthday.ty>>, e.rec.birthday.s >>

RECURSIVE DumpEntries(_)
DumpEntries(d) ==
    IF d = <<>> THEN <<>> ELSE DumpEntry(Head(d)) \o DumpEntries(Tail(d))

\* pickle.dump(self.data, file) (project.py:127)
Dumps(d) == <<Unary(Len(d))>> \o DumpEntries(d) \o <<STOP>>

RECURSIVE LoadEntries(_, _, _)
\* Reads n entries of blob b from position i; ok is FALSE when b ends early.
LoadEntries(b, i, n) ==
    IF n = 0 THEN [ok |-> TRUE, d |-> <<>>, next |-> i]
    ELSE IF i + 2 > Len(b) THEN [ok |-> FALSE, d |-> <<>>, next |-> i]
    ELSE LET np == Len(b[i + 2])
         IN  IF i + 2 + np + 2 > Len(b) THEN [ok |-> FALSE, d |-> <<>>, next |-> i]
             ELSE LET e == [key |-> b[i],
                            rec |-> [name     |-> b[i + 1],
                                     phones   |-> SubSeq(b, i + 3, i + 2 + np),
                                     birthday |-> [ty |-> b[i + 3 + np][1],
                                                   s  |-> b[i + 4 + np]]]]
                      r == LoadEntries(b, i + 5 + np, n - 1)
                  IN  [ok |-> r.ok, d |-> <<e>> \o r.d, next |-> r.next]

\* pickle.load(file) (project.py:135): fails unless the blob is complete
Loads(b) ==
    IF Len(b) < 2 THEN [ok |-> FALSE, d |-> <<>>]
    ELSE LET r == LoadEntries(b, 2, Len(b[1]))
         IN  IF r.ok /\ r.next = Len(b) /\ b[r.next] = STOP
             THEN [ok |-> TRUE, d |-> r.d]
             ELSE [ok |-> FALSE, d |-> <<>>]

\* ----------------------------------------------------------- AddressBook
\* An AddressBook with its file: data is self.data, exists and bytes are the
\* file at self.file_path, save is the outcome of the last save_to_disk of
\* the running operation.
FilePath == <<"address_book.pkl">>     \* project.py:105

Book(d, e, b) == [data |-> d, exists |-> e, bytes |-> b, save |-> "none"]

\* An I/O failure: "open" (open() raises, the file is untouched), "partial"
\* (open(.., "wb") emptied the file and the dump stopped before the STOP
\* opcode), "read" (open(.., "rb") or the read raises)
SaveFaults == {"open", "partial"}
ReadFaults == {"read"}

\* AddressBook.save_to_disk (project.py:123-129)
save_to_disk(book, fault) ==
    IF FilePath = <<>> THEN book
    ELSE CASE fault = "open" ->
                [book EXCEPT !.save = "failed"]
           [] fault = "partial" ->
                [book EXCEPT !.exists = TRUE,
                             !.bytes = SubSeq(Dumps(book.data), 1, Len(Dumps(book.data)) - 1),
                             !.save = "failed"]
           [] OTHER ->
                [book EXCEPT !.exists = TRUE, !.bytes = Dumps(book.data), !.save = "ok"]

\* AddressBook.load_from_disk (project.py:131-140); how is the branch taken
load_from_disk(book, fault) ==
    IF FilePath = <<>> THEN [book |-> book, how |-> "nopath"]
    ELSE IF ~book.exists
         THEN [book |-> book, how |-> "FileNotFoundError"]
         ELSE IF fault = "read" \/ ~Loads(book.bytes).ok
              THEN [book |-> [book EXCEPT !.data = <<>>], how |-> "Exception"]
              ELSE [book |-> [book EXCEPT !.data = Loads(book.bytes).d], how |-> "loaded"]

\* add_record without the save of line 111
add_record_unsaved(book, record, fault) ==
    [book EXCEPT !.data = DictSet(@, record.name, record)]

\* AddressBook.add_record (project.py:109-111)
add_record(book, record, fault) ==
    save_to_disk([book EXCEPT !.data = DictSet(@, record.name, record)], fault)

\* AddressBook.remove_record (project.py:113-115)
remove_record(book, record, fault) ==
    IF ~Has(book.data, record.name)
    THEN [book |-> book, raised |-> "KeyError"]
    ELSE [book   |-> save_to_disk([book EXCEPT !.data = DictDel(@, record.name)], fault),
          raised |-> "none"]

\* edit_record_name without the assignment of line 119
edit_record_name_keeps_name(book, old_name, new_name, fault) ==
    IF ~Has(book.data, old_name)
    THEN [book |-> book, raised |-> "KeyError"]
    ELSE LET record == Get(book.data, old_name)
             popped == [book EXCEPT !.data = DictDel(@, old_name)]
         IN  IF ~NameValidate(PyStr(new_name))
             THEN [book |-> popped, raised |-> "ValueError"]
             ELSE [book   |-> save_to_disk([popped EXCEPT !.data = DictSet(@, new_name, record)],
                                           fault),
                   raised |-> "none"]

\* edit_record_name reading self.data[old_name] instead of popping it
edit_record_name_no_pop(book, old_name, new_name, fault) ==
    IF ~Has(book.data, old_name)
    THEN [book |-> book, raised |-> "KeyError"]
    ELSE LET record == Get(book.data, old_name)
         IN  IF ~NameValidate(PyStr(new_name))
             THEN [book |-> book, raised |-> "ValueError"]
             ELSE [book   |-> save_to_disk(
                                [book EXCEPT !.data =
                                    DictSet(@, new_name, [record EXCEPT !.name = new_name])],
                                fault),
                   raised |-> "none"]

\* AddressBook.edit_record_name (project.py:117-121): pop, then the Name
\* setter, then the insertion under the new key, then the save.
edit_record_name(book, old_name, new_name, fault) ==
    IF ~Has(book.data, old_name)
    THEN [book |-> book, raised |-> "KeyError"]
    ELSE LET record == Get(book.data, old_name)
             popped == [book EXCEPT !.data = DictDel(@, old_name)]
             set    == FieldSet("Name", PyStr(new_name))
         IN  IF set.raised /= "none"
             THEN [book |-> popped, raised |-> set.raised]
             ELSE [book   |-> save_to_disk(
                                [popped EXCEPT !.data =
                                    DictSet(@, new_name, [record EXCEPT !.name = set.value.s])],
                                fault),
                   raised |-> "none"]

\* ------------------------------------------------------ command functions
NoText == <<>>

\* validation_contact (project.py:7-15): the wrapper's own answer, or
\* NoText when it calls the wrapped function
validation_contact(name, phone) ==
    IF ~NameMatches(name)
    THEN <<"Invalid input. Name can only contain English letters and spaces.">>
    ELSE IF ~PhoneMatches(phone)
         THEN <<"Invalid input. Phone number can only contain digits.">>
         ELSE NoText

\* add_contact adding the phone to the record already under name
add_contact_keeps_phones(book, name, phone, fault) ==
    LET r == RecordInit(name, PyNone)
        old == IF Has(book.data, name) THEN Get(book.data, name) ELSE r.rec
    IN  IF r.raised /= "none"
        THEN [book |-> book, raised |-> r.raised, out |-> NoText]
        ELSE [book   |-> add_record(book, add_phone(old, phone), fault),
              raised |-> "none",
              out    |-> <<"Contact ">> \o name \o <<" with phone number ">> \o phone
                            \o <<" has been added.">>]

\* add_contact (project.py:143-147)
add_contact(book, name, phone, fault) ==
    LET r == RecordInit(name, PyNone)
    IN  IF r.raised /= "none"
        THEN [book |-> book, raised |-> r.raised, out |-> NoText]
        ELSE [book   |-> add_record(book, add_phone(r.rec, phone), fault),
              raised |-> "none",
              out    |-> <<"Contact ">> \o name \o <<" with phone number ">> \o phone
                            \o <<" has been added.">>]

\* change_contact creating the contact that does not exist
change_contact_creates(book, name, phone, fault) ==
    LET record == add_phone(RecordInit(name, PyNone).rec, phone)
    IN  [book   |-> save_to_disk([book EXCEPT !.data = DictSet(@, name, record)], fault),
         raised |-> "none",
         out    |-> IF Has(book.data, name)
                    THEN <<"Phone number for contact ">> \o name \o <<" has been updated to ">>
                            \o phone \o <<".">>
                    ELSE <<"Contact ">> \o name \o <<" does not exist.">>]

\* change_contact (project.py:150-158)
change_contact(book, name, phone, fault) ==
    IF Has(book.data, name)
    THEN LET record == add_phone([Get(book.data, name) EXCEPT !.phones = <<>>], phone)
         IN  [book   |-> save_to_disk([book EXCEPT !.data = DictSet(@, name, record)], fault),
              raised |-> "none",
              out    |-> <<"Phone number for contact ">> \o name \o <<" has been updated to ">>
                            \o phone \o <<".">>]
    ELSE [book |-> book, raised |-> "none",
          out  |-> <<"Contact ">> \o name \o <<" does not exist.">>]

\* phone_contact (project.py:161-167)
phone_contact(book, name) ==
    IF Has(book.data, name)
    THEN <<"Phone number for contact ">> \o name \o <<": ">>
            \o Join(<<", ">>, Get(book.data, name).phones)
    ELSE <<"Contact ">> \o name \o <<" does not exist.">>

\* One line of the listing of show_all_contacts (project.py:174)
ContactLine(e) == e.key \o <<": ">> \o Join(<<", ">>, e.rec.phones)

\* show_all_contacts (project.py:170-175)
show_all_contacts(book) ==
    IF book.data = <<>>
    THEN <<"No contacts found.">>
    ELSE <<"Contacts:\n">> \o Join(<<"\n">>, [i \in 1..Len(book.data) |-> ContactLine(book.data[i])])

\* hello (project.py:178-179)
hello == <<"How can I help you?">>

\* ------------------------------------------------------------------ main
s_hello  == <<"h", "e", "l", "l", "o">>
s_add    == <<"a", "d", "d">>
s_change == <<"c", "h", "a", "n", "g", "e">>
s_phone  == <<"p", "h", "o", "n", "e">>
s_show   == <<"s", "h", "o", "w">>
s_all    == <<"a", "l", "l">>
s_good   == <<"g", "o", "o", "d">>
s_bye    == <<"b", "y", "e">>
s_close  == <<"c", "l", "o", "s", "e">>
s_exit   == <<"e", "x", "i", "t">>
s_dot    == <<".">>

\* The list of line 225 without "."
ExitWords_without_dot == {s_good, s_bye, s_close, s_exit}

\* The verbs that end the loop (project.py:225)
ExitWords == {s_good, s_bye, s_close, s_exit, s_dot}

InvalidCommand == <<"Invalid command. Please try again.">>

\* input(...).lower().split() (project.py:187)
read_command(line) == Split(Lower(line))

\* One iteration of the loop of main (project.py:188-230) on the command
\* read: the book afterwards, the text printed, the exception that leaves
\* main (if any) and whether the loop goes on.
main_step(book, command, fault) ==
    LET stay(out) == [book |-> book, out |-> out, raised |-> "none", running |-> "running"]
        run(r) == [book |-> r.book, out |-> r.out, raised |-> r.raised,
                   running |-> IF r.raised = "none" THEN "running" ELSE "crashed"]
    IN  IF command = <<>> THEN stay(InvalidCommand)
        ELSE CASE command[1] = s_hello -> stay(hello)
               [] command[1] = s_add ->
                    IF Len(command) /= 3 THEN stay(InvalidCommand)
                    ELSE run(add_contact(book, command[2], command[3], fault))
               [] command[1] = s_change ->
                    IF Len(command) /= 3 THEN stay(InvalidCommand)
                    ELSE run(change_contact(book, command[2], command[3], fault))
               [] command[1] = s_phone ->
                    IF Len(command) /= 2 THEN stay(InvalidCommand)
                    ELSE stay(phone_contact(book, command[2]))
               [] command[1] = s_show ->
                    IF Len(command) /= 2 THEN stay(InvalidCommand)
                    ELSE IF command[2] = s_all THEN stay(show_all_contacts(book))
                    ELSE stay(phone_contact(book, command[2]))
               [] command[1] \in ExitWords ->
                    [book |-> save_to_disk(book, fault), out |-> <<"Goodbye!">>,
                     raised |-> "none", running |-> "terminated"]
               [] OTHER -> stay(InvalidCommand)

\* ----------------------------------------------------------------- inputs
s_bob == <<"b", "o", "b">>
s_b0  == <<"b", "0">>
s_12  == <<"1", "2">>
s_1a2 == <<"1", "a", "2">>
s_xyz == <<"x", "y", "z">>
Empty == <<>>

NameArgs     == {s_bob, s_b0}
PhoneArgs    == {s_12, s_1a2}
D0315        == PyDate(<<"0", "3", "1", "5">>)
BirthdayArgs == {PyNone, D0315, PyInt(<<"5">>)}
PhoneLists   == {<<>>, <<s_1a2, s_12>>}
PyValues     == {PyNone, PyStr(Empty), PyStr(s_bob), D0315, PyInt(<<"0">>), PyInt(<<"5">>)}
FieldKinds   == {"Field", "Name", "Phone", "Birthday"}

Verbs == {s_hello, s_add, s_change, s_phone, s_show, s_xyz} \cup ExitWords
Commands ==
    {<<>>} \cup {<<v>> : v \in Verbs}
           \cup {<<v, a>> : v \in {s_add, s_phone, s_show, s_xyz, s_dot},
                            a \in NameArgs \cup {s_all}}
           \cup {<<v, a, p>> : v \in {s_add, s_change}, a \in NameArgs, p \in PhoneArgs}
           \cup {<<v, s_bob, s_12>> : v \in {s_phone, s_show, s_xyz, s_good}}
           \cup {<<v, s_bob, s_12, s_12>> : v \in {s_add, s_change}}
Lines ==
    {Join(<<Space>>, c) : c \in Commands}
        \cup {<<Space, Space>>,
              <<Space>> \o s_add \o <<Space, Space>> \o s_bob \o <<Space>> \o s_12 \o <<Space>>,
              <<"E", "X", "I", "T">>,
              <<"A", "d", "d", Space, "B", "O", "B", Space, "1", "2">>,
              <<"b", "y", "E", Space, "b", "o", "b">>}

\* read_command on every line of Lines
CommandOf == [l \in Lines |-> read_command(l)]

\* ------------------------------------------------------------------ state
VARIABLES
    data,        \* AddressBook.data: the entries in insertion order
    fileExists,  \* there is a file at file_path
    fileBytes,   \* its content
    faults,      \* I/O failures so far
    running,     \* main: "init", "running", "terminated" or "crashed"
    last,        \* the last call: its arguments and its results
    field,       \* a Field object held by a caller
    fieldLast    \* the last call on field

vars == <<data, fileExists, fileBytes, faults, running, last, field, fieldLast>>

NoField == [kind |-> "none", value |-> PyNone]
NoCall  == [op |-> "none", name |-> Empty, phone |-> Empty, new_name |-> Empty,
            raised |-> "none", save |-> "none", how |-> "none", out |-> NoText,
            command |-> <<>>]
NoFieldCall == [op |-> "none", kind |-> "none", prev |-> PyNone, arg |-> PyNone,
                raised |-> "none"]

\* AddressBook() (project.py:105-107, 183): no data yet, and no file
Init ==
    /\ data = <<>>
    /\ fileExists = FALSE
    /\ fileBytes = <<>>
    /\ faults = 0
    /\ running = "init"
    /\ last = NoCall
    /\ field = NoField
    /\ fieldLast = NoFieldCall

Cur == Book(data, fileExists, fileBytes)

SaveFaultChoices == IF faults < MaxFaults THEN SaveFaults \cup {"none"} ELSE {"none"}
LoadFaultChoices == IF faults < MaxFaults THEN ReadFaults \cup {"none"} ELSE {"none"}

SetBook(book) ==
    /\ data' = book.data
    /\ fileExists' = book.exists
    /\ fileBytes' = book.bytes
    /\ faults' = faults + (IF book.save = "failed" THEN 1 ELSE 0)

\* ---------------------------------------------------- calls on the library
\* A failure is drawn only for a call that reaches the file.
\* r = Record(name, birthday); r.add_phone(p) for p in phones; add_record(r)
AddRecord(name, birthday, phones, fault) ==
    \E r \in {RecordInit(name, birthday)} :
    \E book \in {IF r.raised /= "none" THEN Cur
                 ELSE add_record(Cur, add_phones(r.rec, phones), fault)} :
        /\ fault = "none" \/ book.save = "failed"
        /\ SetBook(book)
        /\ last' = [NoCall EXCEPT !.op = "add_record", !.name = name,
                                  !.raised = r.raised, !.save = book.save]
        /\ UNCHANGED <<running, field, fieldLast>>

RemoveRecord(name, fault) ==
    \E r \in {remove_record(Cur, RecordInit(name, PyNone).rec, fault)} :
        /\ fault = "none" \/ r.book.save = "failed"
        /\ SetBook(r.book)
        /\ last' = [NoCall EXCEPT !.op = "remove_record", !.name = name,
                                  !.raised = r.raised, !.save = r.book.save]
        /\ UNCHANGED <<running, field, fieldLast>>

EditRecordName(old_name, new_name, fault) ==
    \E r \in {edit_record_name(Cur, old_name, new_name, fault)} :
        /\ fault = "none" \/ r.book.save = "failed"
        /\ SetBook(r.book)
        /\ last' = [NoCall EXCEPT !.op = "edit_record_name", !.name = old_name,
                                  !.new_name = new_name,
                                  !.raised = r.raised, !.save = r.book.save]
        /\ UNCHANGED <<running, field, fieldLast>>

SaveToDisk(fault) ==
    \E book \in {save_to_disk(Cur, fault)} :
        /\ fault = "none" \/ book.save = "failed"
        /\ SetBook(book)
        /\ last' = [NoCall EXCEPT !.op = "save_to_disk", !.save = book.save]
        /\ UNCHANGED <<running, field, fieldLast>>

LoadFromDisk(fault) ==
    \E r \in {load_from_disk(Cur, fault)} :
        /\ data' = r.book.data
        /\ faults' = faults + (IF fault = "read" /\ r.how = "Exception" THEN 1 ELSE 0)
        /\ last' = [NoCall EXCEPT !.op = "load_from_disk", !.how = r.how]
        /\ UNCHANGED <<fileExists, fileBytes, running, field, fieldLast>>

ChangeContact(name, phone, fault) ==
    \E r \in {change_contact(Cur, name, phone, fault)} :
        /\ fault = "none" \/ r.book.save = "failed"
        /\ SetBook(r.book)
        /\ last' = [NoCall EXCEPT !.op = "change_contact", !.name = name, !.phone = phone,
                                  !.raised = r.raised, !.save = r.book.save, !.out = r.out]
        /\ UNCHANGED <<running, field, fieldLast>>

NextBook ==
    \/ \E n \in NameArgs \cup {Empty}, b \in BirthdayArgs, ps \in PhoneLists,
          f \in SaveFaultChoices : AddRecord(n, b, ps, f)
    \/ \E n \in NameArgs, f \in SaveFaultChoices : RemoveRecord(n, f)
    \/ \E o \in NameArgs, n \in NameArgs \cup {Empty}, f \in SaveFaultChoices :
          EditRecordName(o, n, f)
    \/ \E f \in SaveFaultChoices : SaveToDisk(f)
    \/ \E f \in LoadFaultChoices : LoadFromDisk(f)
    \/ \E n \in NameArgs, f \in SaveFaultChoices : ChangeContact(n, s_12, f)

SpecBook == Init /\ [][NextBook]_vars

\* ------------------------------------------------------------------- main
\* main before the loop (project.py:183-184)
MainLoad(fault) ==
    /\ running = "init"
    /\ \E r \in {load_from_disk(Cur, fault)} :
           /\ data' = r.book.data
           /\ faults' = faults + (IF fault = "read" /\ r.how = "Exception" THEN 1 ELSE 0)
           /\ last' = [NoCall EXCEPT !.op = "load_from_disk", !.how = r.how]
    /\ running' = "running"
    /\ UNCHANGED <<fileExists, fileBytes, field, fieldLast>>

\* One iteration of the loop (project.py:186-230); a failure is drawn only
\* for an iteration that writes the file
MainStep(line, fault) ==
    /\ running = "running"
    /\ \E r \in {main_step(Cur, CommandOf[line], fault)} :
           /\ fault = "none" \/ r.book.save = "failed"
        /\ SetBook(r.book)
           /\ running' = r.running
           /\ last' = [NoCall EXCEPT !.op = "main", !.command = CommandOf[line],
                                     !.raised = r.raised, !.save = r.book.save,
                                     !.out = r.out]
    /\ UNCHANGED <<field, fieldLast>>

NextMain ==
    \/ \E f \in LoadFaultChoices : MainLoad(f)
    \/ \E l \in Lines, f \in SaveFaultChoices : MainStep(l, f)

SpecMain == Init /\ [][NextMain]_vars

\* ----------------------------------------------------------------- fields
\* field = Kind(value) (project.py:19-21): when validate() raises no object
\* is bound
FieldConstruct(kind, value) ==
    LET r == FieldInit(kind, value)
    IN  /\ field' = IF r.raised = "none" THEN [kind |-> kind, value |-> r.value]
                    ELSE NoField
        /\ fieldLast' = [op |-> "construct", kind |-> kind, prev |-> PyNone,
                         arg |-> value, raised |-> r.raised]
        /\ UNCHANGED <<data, fileExists, fileBytes, faults, running, last>>

\* field.value = new_value (project.py:30-33)
FieldAssign(new_value) ==
    /\ field.kind /= "none"
    /\ LET r == FieldSet(field.kind, new_value)
       IN  /\ field' = [field EXCEPT !.value = r.value]
           /\ fieldLast' = [op |-> "assign", kind |-> field.kind, prev |-> field.value,
                            arg |-> new_value, raised |-> r.raised]
    /\ UNCHANGED <<data, fileExists, fileBytes, faults, running, last>>

NextField ==
    \/ \E k \in FieldKinds, v \in PyValues : FieldConstruct(k, v)
    \/ \E v \in PyValues : FieldAssign(v)

SpecField == Init /\ [][NextField]_vars

\* ================================================================= claims
File == <<fileExists, fileBytes>>

\* A step of the loop of main that ran the command c
Ran(c) == running = "running" /\ last'.op = "main" /\ last'.command = c

AddOrChange(c) == Len(c) = 3 /\ c[1] \in {s_add, s_change}

\* C1: add and change with a name that has a character outside English
\* letters and spaces, or a phone that has a non-digit, are rejected with a
\* message before the operation runs: mapping and file stay as they were.
C1_RejectedBeforeOperation ==
    [][\A c \in {last'.command} :
          (Ran(c) /\ AddOrChange(c) /\ ~(NameMatches(c[2]) /\ PhoneMatches(c[3])))
              => /\ data' = data
                 /\ File' = File
                 /\ last'.out = validation_contact(c[2], c[3])
                 /\ last'.out /= NoText]_vars

\* C2: after add(name, phone) with a valid name and phone the record under
\* name has the phone list [phone], whatever was under name before, and
\* phone(name) then answers with exactly that phone.
C2_AddThenPhone ==
    [][\A c \in {last'.command} :
          (Ran(c) /\ Len(c) = 3 /\ c[1] = s_add /\ NameMatches(c[2]) /\ PhoneMatches(c[3]))
              => /\ Has(data', c[2])
                 /\ Get(data', c[2]).phones = <<c[3]>>
                 /\ Get(data', c[2]).name = c[2]
                 /\ phone_contact(Book(data', fileExists', fileBytes'), c[2])
                        = <<"Phone number for contact ">> \o c[2] \o <<": ">> \o c[3]
                 /\ main_step(Book(data', fileExists', fileBytes'),
                              read_command(s_phone \o <<Space>> \o c[2]), "none").out
                        = <<"Phone number for contact ">> \o c[2] \o <<": ">> \o c[3]]_vars

\* add bob 12 has replaced the record bob, and b0 is in the book too
C2_Witness ==
    /\ last.op = "main"
    /\ last.command = <<s_add, s_bob, s_12>>
    /\ Len(data) = 2
    /\ Get(data, s_bob).phones = <<s_12>>

MutatingCalls == {"add_record", "remove_record", "edit_record_name", "change_contact",
                  "save_to_disk"}

\* C3: when add_record, remove_record, edit_record_name, change on an
\* existing contact or the save of exit has returned and the write did not
\* fail, the file holds the whole in-memory mapping: names, phones in
\* order, birthdays.
C3_FileEqualsMapping ==
    ( /\ last.op \in MutatingCalls
      /\ last.raised = "none"
      /\ last.save /= "failed"
      /\ (last.op = "change_contact" => Has(data, last.name)) )
        => /\ fileExists
           /\ fileBytes = Dumps(data)
           /\ Loads(fileBytes).ok
           /\ Loads(fileBytes).d = data

\* change has returned on a book of two contacts after an earlier write failed
C3_Witness ==
    /\ last.op = "change_contact"
    /\ last.save = "ok"
    /\ faults = 1
    /\ Len(data) = 2
    /\ \E i \in 1..Len(data) : Len(data[i].rec.phones) = 2 /\ data[i].rec.birthday = D0315

\* C4: every key of the mapping is the name.value of its record
C4_KeyIsName ==
    \A i \in 1..Len(data) : data[i].rec.name = data[i].key

\* a rename onto another name has returned
C4_Witness ==
    /\ last.op = "edit_record_name"
    /\ last.raised = "none"
    /\ last.name /= last.new_name
    /\ Has(data, last.new_name)
    /\ Len(data) = 1

\* C5: after load_from_disk the mapping is the file's content when the file
\* exists and deserializes, and is empty when the file does not exist or
\* another failure occurred, whatever the mapping held before.
C5_LoadReplacesOrEmpties ==
    last.op = "load_from_disk"
        => IF fileExists /\ Loads(fileBytes).ok /\ last.how /= "Exception"
           THEN data = Loads(fileBytes).d
           ELSE data = <<>>

C6_ExitSynonyms == {s_good, s_bye, s_close, s_exit, s_dot}

\* C6: a line whose first token is not an exit synonym prints a message and
\* leaves the loop running, without raising; a line whose first token is an
\* exit synonym saves the mapping, prints the farewell and ends the loop;
\* the loop ends in no other way.
C6_LoopStates ==
    [][/\ (running = "running" /\ last'.op = "main")
            => \A c \in {last'.command} :
                 /\ last'.raised = "none"
                 /\ last'.out /= NoText
                 /\ running' \in {"running", "terminated"}
                 /\ (c = <<>> \/ c[1] \notin C6_ExitSynonyms) => running' = "running"
                 /\ (c /= <<>> /\ c[1] \in C6_ExitSynonyms)
                        => /\ running' = "terminated"
                           /\ last'.out = <<"Goodbye!">>
                           /\ data' = data
                           /\ last'.save \in {"ok", "failed"}
                           /\ last'.save = "ok" => (fileExists' /\ fileBytes' = Dumps(data'))
       /\ (running /= "terminated" /\ running' = "terminated")
            => /\ running = "running"
               /\ last'.command /= <<>>
               /\ last'.command[1] \in C6_ExitSynonyms
       /\ running = "terminated" => running' = "terminated"
       /\ running' /= "crashed"]_vars

\* "byE bob" has ended the loop of a book that holds contacts
C6_Witness ==
    /\ running = "terminated"
    /\ last.command = <<s_bye, s_bob>>
    /\ data /= <<>>
    /\ fileBytes = Dumps(data)

\* C7: change(name, phone) on a name that is not in the book returns
\* "Contact <name> does not exist." and leaves the mapping and the file as
\* they were; nothing is written.
C7_ChangeOnMissing ==
    [][\A c \in {last'.command} :
          (Ran(c) /\ Len(c) = 3 /\ c[1] = s_change /\ ~Has(data, c[2]))
              => /\ last'.out = <<"Contact ">> \o c[2] \o <<" does not exist.">>
                 /\ last'.raised = "none"
                 /\ data' = data
                 /\ File' = File
                 /\ last'.save = "none"]_vars

\* change bob 12 was answered on a book that holds another contact only
C7_Witness ==
    /\ last.op = "main"
    /\ last.command = <<s_change, s_bob, s_12>>
    /\ last.out = <<"Contact ", "b", "o", "b", " does not exist.">>
    /\ Keys(data) = {s_b0}

\* C8: the value of a Field satisfies the validation of its subtype, and an
\* assignment that fails validation leaves the previous value in place.
C8_FieldValueValid ==
    /\ field.kind /= "none" => Validate(field.kind, field.value)
    /\ (fieldLast.op = "assign" /\ fieldLast.raised /= "none")
            => field.value = fieldLast.prev

\* C9 as stated: when old is a key, afterwards new maps to the record that
\* was under old, named new, and old is no longer a key; when old is not a
\* key the call fails with a lookup error.
C9_RenameMoves ==
    [][last'.op = "edit_record_name"
          => \A old \in {last'.name}, new \in {last'.new_name} :
               IF Has(data, old)
               THEN /\ last'.raised = "none"
                    /\ Has(data', new)
                    /\ Get(data', new) = [Get(data, old) EXCEPT !.name = new]
                    /\ ~Has(data', old)
               ELSE last'.raised = "KeyError"]_vars

\* C9 amended: when old is a key and new is a non-empty name, afterwards new
\* maps to the record that was under old, named new, any record that was
\* under new is gone, and old is no longer a key unless old = new; when old
\* is not a key the call fails with a lookup error and changes nothing.
C9_RenameMovesUnlessSame ==
    [][last'.op = "edit_record_name"
          => \A old \in {last'.name}, new \in {last'.new_name} :
               /\ (Has(data, old) /\ new /= Empty)
                    => /\ last'.raised = "none"
                       /\ Has(data', new)
                       /\ Get(data', new) = [Get(data, old) EXCEPT !.name = new]
                       /\ old /= new => ~Has(data', old)
                       /\ Keys(data') = (Keys(data) \ {old}) \cup {new}
                       /\ \A k \in Keys(data') \ {new} : Get(data', k) = Get(data, k)
               /\ ~Has(data, old)
                    => /\ last'.raised = "KeyError"
                       /\ data' = data
                       /\ File' = File]_vars

\* a rename of a contact to its own name has returned
C9_Witness ==
    /\ last.op = "edit_record_name"
    /\ last.raised = "none"
    /\ last.name = last.new_name
    /\ Has(data, last.name)
    /\ Get(data, last.name).phones /= <<>>

\* C10: an edit_record_name call that fails leaves the keys, the records
\* and the file as they were.
C10_FailedRenameKeepsBook ==
    [][(last'.op = "edit_record_name" /\ last'.raised /= "none")
          => /\ data' = data
             /\ File' = File]_vars

====
